---- MODULE Spec2Model ----
(***************************************************************************)
(* NetworkNote: the contact-capture component (NetworkNote), its three     *)
(* views, the local storage helpers, the speech recognition effect and the *)
(* extraction call of processWithAI, as a state machine; and the POST      *)
(* handler of /api/process that answers the call.                          *)
(*                                                                         *)
(* JavaScript values are tagged records: [t |-> "undefined"],              *)
(* [t |-> "null"], [t |-> "string", v |-> <<tokens>>], [t |-> "number",    *)
(* v |-> n], [t |-> "array", v |-> <<...>>], [t |-> "object", v |-> f].    *)
(* A string is a sequence of tokens; the token " " is white space.         *)
(***************************************************************************)
EXTENDS Integers, Sequences, FiniteSets, TLC

(* ------------------------------ bounds -------------------------------- *)
MaxContacts == 1
MaxList == 2
MaxClock == 1
MaxLen == 2
MaxEngines == 2
MaxHeard == 2
MaxSpoken == 4

(* --------------------------- JavaScript values ------------------------ *)
Undefined == [t |-> "undefined"]
Null == [t |-> "null"]
Str(s) == [t |-> "string", v |-> s]
Num(n) == [t |-> "number", v |-> n]
Arr(a) == [t |-> "array", v |-> a]
Obj(f) == [t |-> "object", v |-> f]

\* ToBoolean: undefined, null, '' and 0 are falsy
Truthy(x) ==
  CASE x.t = "undefined" -> FALSE
    [] x.t = "null" -> FALSE
    [] x.t = "string" -> x.v # <<>>
    [] x.t = "number" -> x.v # 0
    [] OTHER -> TRUE

\* variant: a ?? b, only undefined and null give way
JsOrNullish(a, b) == IF a.t \in {"undefined", "null"} THEN b ELSE a

\* a || b
JsOr(a, b) == IF Truthy(a) THEN a ELSE b

\* obj.key for an object that may lack the key
Get(c, k) == IF k \in DOMAIN c THEN c[k] ELSE Undefined

\* parsed.key: a TypeError on null, undefined on a primitive or a missing key
PropThrows(parsed) == parsed.t \in {"null", "undefined"}
Prop(parsed, k) == IF parsed.t = "object" THEN Get(parsed.v, k) ELSE Undefined

RECURSIVE TrimStart(_)
TrimStart(s) == IF s # <<>> /\ Head(s) = " " THEN TrimStart(Tail(s)) ELSE s

RECURSIVE TrimEnd(_)
TrimEnd(s) ==
  IF s # <<>> /\ s[Len(s)] = " " THEN TrimEnd(SubSeq(s, 1, Len(s) - 1)) ELSE s

\* String.prototype.trim
Trim(s) == TrimEnd(TrimStart(s))

(* ------------------------------- types -------------------------------- *)
FormKeys == {"name", "company", "role", "email", "phone", "location", "meetingContext"}

EmptyForm == [k \in FormKeys |-> <<>>]

\* the keys of interface Contact
ContactKeys ==
  {"id", "name", "company", "role", "email", "phone", "location", "photo",
   "summary", "keyTopics", "actionItems", "followUpSuggestion", "rawNotes",
   "meetingContext", "createdAt"}

(* --------------------------- local storage ---------------------------- *)
\* JSON.stringify of the contact list: a key whose value is undefined is left out
StringifyContact(c) == [k \in {j \in DOMAIN c : c[j].t # "undefined"} |-> c[k]]
Stringify(list) == [i \in 1..Len(list) |-> StringifyContact(list[i])]

\* JSON.parse of a stored document
Parse(doc) == doc

\* localStorage holds no item (<<>>) or one document (<<doc>>)
NoItem == <<>>

saveToStorage(list) == <<Stringify(list)>>

loadFromStorage(store) == IF store # NoItem THEN Parse(store[1]) ELSE <<>>

\* variant: the save effect writes only a list that has contacts
SaveEffectNonEmptyOnly(list, store) ==
  IF Len(list) > 0 THEN saveToStorage(list) ELSE store

\* the save effect, run with the rendered contact list
SaveEffect(list, store) ==
  IF Len(list) > 0 \/ Len(loadFromStorage(store)) > 0
    THEN saveToStorage(list)
    ELSE store

(* ------------------------- contact construction ---------------------- *)
\* new Date().toISOString() at clock reading n
IsoString(n) == Str(<<"iso", ToString(n)>>)

\* the submission's closure: transcript, formData and photo of the render
\* in which the process button was clicked
Snapshot(tr, fd, ph) == [transcript |-> tr, formData |-> fd, photo |-> ph]

\* newContact of processWithAI (success path)
NewContact(parsed, snap, n) ==
  [ id |-> Num(n),
    name |-> JsOr(Prop(parsed, "name"),
                  JsOr(Str(snap.formData.name), Str(<<"Unknown Contact">>))),
    company |-> JsOr(Prop(parsed, "company"), JsOr(Str(snap.formData.company), Undefined)),
    role |-> JsOr(Prop(parsed, "role"), JsOr(Str(snap.formData.role), Undefined)),
    email |-> JsOr(Prop(parsed, "email"), JsOr(Str(snap.formData.email), Undefined)),
    phone |-> JsOr(Prop(parsed, "phone"), JsOr(Str(snap.formData.phone), Undefined)),
    location |-> JsOr(Prop(parsed, "location"), JsOr(Str(snap.formData.location), Undefined)),
    photo |-> JsOr(snap.photo, Undefined),
    summary |-> Prop(parsed, "summary"),
    keyTopics |-> Prop(parsed, "keyTopics"),
    actionItems |-> Prop(parsed, "actionItems"),
    followUpSuggestion |-> Prop(parsed, "followUpSuggestion"),
    rawNotes |-> Str(snap.transcript),
    meetingContext |-> JsOr(Str(snap.formData.meetingContext), Undefined),
    createdAt |-> IsoString(n) ]

\* variant: the fallback contact takes the name as typed, without a placeholder
FallbackContactNameAsTyped(snap, n) ==
  [ id |-> Num(n),
    name |-> Str(snap.formData.name),
    company |-> JsOr(Str(snap.formData.company), Undefined),
    role |-> JsOr(Str(snap.formData.role), Undefined),
    email |-> JsOr(Str(snap.formData.email), Undefined),
    phone |-> JsOr(Str(snap.formData.phone), Undefined),
    location |-> JsOr(Str(snap.formData.location), Undefined),
    photo |-> JsOr(snap.photo, Undefined),
    rawNotes |-> Str(snap.transcript),
    summary |-> Str(<<"Notes captured - AI summary unavailable">>),
    keyTopics |-> Arr(<<>>),
    actionItems |-> Arr(<<>>),
    followUpSuggestion |-> Str(<<"Review notes and follow up as appropriate">>),
    meetingContext |-> JsOr(Str(snap.formData.meetingContext), Undefined),
    createdAt |-> IsoString(n) ]

\* fallbackContact of processWithAI (catch block)
FallbackContact(snap, n) ==
  [ id |-> Num(n),
    name |-> JsOr(Str(snap.formData.name), Str(<<"New Contact">>)),
    company |-> JsOr(Str(snap.formData.company), Undefined),
    role |-> JsOr(Str(snap.formData.role), Undefined),
    email |-> JsOr(Str(snap.formData.email), Undefined),
    phone |-> JsOr(Str(snap.formData.phone), Undefined),
    location |-> JsOr(Str(snap.formData.location), Undefined),
    photo |-> JsOr(snap.photo, Undefined),
    rawNotes |-> Str(snap.transcript),
    summary |-> Str(<<"Notes captured - AI summary unavailable">>),
    keyTopics |-> Arr(<<>>),
    actionItems |-> Arr(<<>>),
    followUpSuggestion |-> Str(<<"Review notes and follow up as appropriate">>),
    meetingContext |-> JsOr(Str(snap.formData.meetingContext), Undefined),
    createdAt |-> IsoString(n) ]

\* prev => prev.filter(c => c.id !== id)
RECURSIVE FilterOut(_, _)
FilterOut(list, id) ==
  IF list = <<>> THEN <<>>
  ELSE IF Get(Head(list), "id") # id
    THEN <<Head(list)>> \o FilterOut(Tail(list), id)
    ELSE FilterOut(Tail(list), id)

(* ------------------------------ inputs -------------------------------- *)
\* values typed into a Quick Details input, and the inputs typed into
TypedKeys == {"name"}
FieldTexts == {<<>>, <<"d">>}

\* values the notes textarea is edited to
TypedTexts == {<<>>, <<" ">>, <<"n">>}

\* data URIs of the files picked in the photo input
PhotoFiles == {<<"p">>}

\* recognition result lists: alternatives [transcript, isFinal]
MaxResults == 2
SpeechResult == [transcript : {<<"a">>}, isFinal : BOOLEAN]
ResultLists == UNION {[1..n -> SpeechResult] : n \in 1..MaxResults}
SpeechEvents ==
  UNION {{[resultIndex |-> i, results |-> r] : i \in 0..(Len(r) - 1)} : r \in ResultLists}

\* events of a longer utterance: up to MaxHeard alternatives of two words
HeardResult == [transcript : {<<"a">>, <<"b">>}, isFinal : BOOLEAN]
HeardLists == UNION {[1..n -> HeardResult] : n \in 1..MaxHeard}
HeardEvents ==
  UNION {{[resultIndex |-> i, results |-> r] : i \in 0..(Len(r) - 1)} : r \in HeardLists}

\* bodies of a 2xx response: not JSON, or JSON that parses to a value
ParsedObject ==
  Obj([name |-> Str(<<"x">>), company |-> Null, role |-> Str(<<>>),
       summary |-> Str(<<"s">>), keyTopics |-> Arr(<<Str(<<"t">>)>>),
       actionItems |-> Arr(<<>>), followUpSuggestion |-> Str(<<"f">>)])
Bodies ==
  {[json |-> FALSE]} \cup
  {[json |-> TRUE, value |-> pv] : pv \in {Null, Str(<<"s">>), ParsedObject}}

\* the fields that both the extraction and the draft can give
OverlapKeys == {"name", "company", "role", "email", "phone", "location"}

\* what a 2xx body has under one of these keys: nothing, null, '', white
\* space, or a text
ExtractedValues == {Undefined, Null, Str(<<>>), Str(<<" ">>), Str(<<"x">>)}

\* the object a JSON body parses to: a key is there or not, never undefined
JsonObject(f) == Obj([k \in {j \in DOMAIN f : f[j].t # "undefined"} |-> f[k]])

\* a 2xx body with name nv, key k as v, and the other overlapping keys left out
BuildBody(nv, k, v) ==
  [json |-> TRUE,
   value |-> JsonObject(
     [j \in OverlapKeys \cup {"summary", "keyTopics", "actionItems", "followUpSuggestion"} |->
        CASE j = "name" -> nv
          [] j = k -> v
          [] j = "summary" -> Str(<<"s">>)
          [] j = "keyTopics" -> Arr(<<Str(<<"t">>)>>)
          [] j = "actionItems" -> Arr(<<>>)
          [] j = "followUpSuggestion" -> Str(<<"f">>)
          [] OTHER -> Undefined])]

BuildBodies ==
  Bodies \cup
  {BuildBody(nv, k, v) : nv \in ExtractedValues, k \in OverlapKeys \ {"name"},
                         v \in ExtractedValues}

\* drafts and notes at the click on the process button
BuildForms == [FormKeys -> FieldTexts]
BuildTranscripts == {<<"n">>, <<"a", " ">>}

\* readings of Date.now(), the host's wall clock: the code reads it when a
\* contact is built, and nothing orders two readings or keeps them apart
ClockReadings == 0..MaxClock

\* a contact written by an earlier session, at a clock reading before this one's
OldContact == FallbackContact(Snapshot(<<"n">>, EmptyForm, Null), -1)
InitialStores == {NoItem, saveToStorage(<<>>), saveToStorage(<<OldContact>>)}

(* ------------------------------- state -------------------------------- *)
VARIABLES
  contacts, currentContact, isRecording, transcript, photo, isProcessing,
  view, speechSupported, formData,        \* useState of NetworkNote
  recognitionRef,                         \* id of the instance in the ref, 0 = null
  engines,                                \* SpeechRecognition instances
  speechAPI,                              \* the window has a SpeechRecognition class
  storage,                                \* localStorage[STORAGE_KEY]
  mount, queued,                          \* mount effects still to run, queued setContacts
  calls,                                  \* processWithAI invocations awaiting fetch / json
  reading,                                \* FileReader reads in progress
  leftNew,                                \* history: the view left `new` during a call
  pristine, createdLog,                   \* history: contacts created, oldest first
  post,                                   \* the POST handler of /api/process: one request
  download,                               \* the file the last click on the vCard button gave
  beforeToggle                            \* history: <<the transcript before the toggle-on>>
                                          \* while recording and no result has arrived,
                                          \* <<before, after>> once toggled off again

vars ==
  <<contacts, currentContact, isRecording, transcript, photo, isProcessing,
    view, speechSupported, formData, recognitionRef, engines, speechAPI,
    storage, mount, queued, calls, reading, leftNew, pristine, createdLog, post,
    download, beforeToggle>>

uiVars == <<contacts, currentContact, isRecording, transcript, photo, isProcessing,
            view, speechSupported, formData>>
speechVars == <<isRecording, recognitionRef, engines>>
envVars == <<speechAPI, mount, queued>>
historyVars == <<leftNew, pristine, createdLog>>
serverVars == <<post>>
clientVars ==
  <<contacts, currentContact, isRecording, transcript, photo, isProcessing,
    view, speechSupported, formData, recognitionRef, engines, speechAPI,
    storage, mount, queued, calls, reading, leftNew, pristine, createdLog,
    download, beforeToggle>>

Free == [st |-> "free", closure |-> FALSE]

InitClient ==
  /\ contacts = <<>>
  /\ currentContact = Null
  /\ isRecording = FALSE
  /\ transcript = <<>>
  /\ photo = Null
  /\ isProcessing = FALSE
  /\ view = "list"
  /\ speechSupported = FALSE
  /\ formData = EmptyForm
  /\ recognitionRef = 0
  /\ engines = [e \in 1..MaxEngines |-> Free]
  /\ speechAPI \in BOOLEAN
  /\ storage \in InitialStores
  /\ mount = "load"
  /\ queued = <<>>
  /\ calls = <<>>
  /\ reading = {}
  /\ leftNew = FALSE
  /\ pristine = TRUE
  /\ createdLog = <<>>
  /\ download = <<>>
  /\ beforeToggle = <<>>

\* no request has reached the POST handler
NoRequest == [pc |-> "none", body |-> <<>>, upstream |-> 0, reply |-> <<>>, resp |-> <<>>]

Init == InitClient /\ post = NoRequest

(* --------------------- speech recognition effect ---------------------- *)
\* an instance no longer referenced and not started is garbage
Collect(eng, ref) ==
  [e \in DOMAIN eng |-> IF e = ref /\ eng[e].st = "idle" THEN Free ELSE eng[e]]

FreeSlots(eng) == {e \in DOMAIN eng : eng[e].st = "free"}

FirstFree(eng) == CHOOSE e \in FreeSlots(eng) : \A f \in FreeSlots(eng) : e <= f

\* the effect can run within the instances the model keeps
EffectFits(eng, ref) == FreeSlots(Collect(eng, ref)) # {}

\* the effect body, run in a render whose isRecording is rec: a new instance
\* goes into recognitionRef, its handlers closing over rec
EffectEngines(eng, ref, rec) ==
  IF speechAPI
    THEN [Collect(eng, ref) EXCEPT ![FirstFree(Collect(eng, ref))] =
            [st |-> "idle", closure |-> rec]]
    ELSE eng

EffectRef(eng, ref) == IF speechAPI THEN FirstFree(Collect(eng, ref)) ELSE ref

(* ------------------------------- mount -------------------------------- *)
\* useEffect(() => setContacts(loadFromStorage()), [])
MountLoadEffect ==
  /\ mount = "load"
  /\ queued' = loadFromStorage(storage)
  /\ mount' = "save"
  /\ UNCHANGED <<uiVars, recognitionRef, engines, speechAPI, storage, calls,
                 reading, historyVars, serverVars, download, beforeToggle>>

\* the save effect of the first render: contacts is still the initial []
MountSaveEffect ==
  /\ mount = "save"
  /\ storage' = SaveEffect(contacts, storage)
  /\ mount' = "speech"
  /\ UNCHANGED <<uiVars, recognitionRef, engines, speechAPI, queued, calls,
                 reading, historyVars, serverVars, download, beforeToggle>>

\* the speech recognition effect of the first render
MountSpeechEffect ==
  /\ mount = "speech"
  /\ engines' = EffectEngines(engines, recognitionRef, isRecording)
  /\ recognitionRef' = EffectRef(engines, recognitionRef)
  /\ mount' = "commit"
  /\ UNCHANGED <<uiVars, speechAPI, storage, queued, calls, reading, historyVars, serverVars, download, beforeToggle>>

\* the render after the mount effects: the queued state is applied and the
\* save effect runs again because contacts changed
MountCommit ==
  /\ mount = "commit"
  /\ contacts' = queued
  /\ speechSupported' = speechAPI
  /\ storage' = SaveEffect(queued, storage)
  /\ mount' = "ready"
  /\ pristine' = (queued = <<>>)
  /\ UNCHANGED <<currentContact, isRecording, transcript, photo, isProcessing, view,
                 formData, recognitionRef, engines, speechAPI, queued, calls,
                 reading, leftNew, createdLog, serverVars, download, beforeToggle>>

(* ---------------------------- navigation ------------------------------ *)
Ready == mount = "ready"

\* ListView: the create button, onClick={() => setView('new')}
RequestCreate ==
  /\ Ready /\ view = "list"
  /\ view' = "new"
  /\ UNCHANGED <<contacts, currentContact, isRecording, transcript, photo,
                 isProcessing, speechSupported, formData, recognitionRef, engines,
                 storage, calls, reading, envVars, historyVars, serverVars, download, beforeToggle>>

\* setTranscript(''); setPhoto(null); setFormData({...all ''})
resetForm ==
  /\ transcript' = <<>>
  /\ photo' = Null
  /\ formData' = EmptyForm

\* NewContactView: the X button, onClick={() => { setView('list'); resetForm() }}
Cancel ==
  /\ Ready /\ view = "new"
  /\ view' = "list"
  /\ resetForm
  /\ leftNew' = (leftNew \/ calls # <<>>)
  /\ UNCHANGED <<contacts, currentContact, isRecording, isProcessing,
                 speechSupported, recognitionRef, engines, storage, calls, reading,
                 envVars, pristine, createdLog, serverVars, download, beforeToggle>>

\* ListView: a contact card, onClick={() => { setCurrentContact(contact); setView('detail') }}
SelectContact(i) ==
  /\ Ready /\ view = "list"
  /\ i \in 1..Len(contacts)
  /\ currentContact' = contacts[i]
  /\ view' = "detail"
  /\ UNCHANGED <<contacts, isRecording, transcript, photo, isProcessing,
                 speechSupported, formData, recognitionRef, engines, storage, calls,
                 reading, envVars, historyVars, serverVars, download, beforeToggle>>

\* DetailView renders only with a current contact
DetailShown == view = "detail" /\ currentContact # Null

\* DetailView: the X button, onClick={() => setView('list')}
Back ==
  /\ Ready /\ DetailShown
  /\ view' = "list"
  /\ UNCHANGED <<contacts, currentContact, isRecording, transcript, photo,
                 isProcessing, speechSupported, formData, recognitionRef, engines,
                 storage, calls, reading, envVars, historyVars, serverVars, download, beforeToggle>>

\* variant: the current contact is kept after the deletion
deleteContactKeepsCurrent(id) ==
  /\ contacts' = FilterOut(contacts, id)
  /\ view' = "list"
  /\ UNCHANGED currentContact
  /\ storage' = SaveEffect(contacts', storage)

\* DetailView: the trash button, deleteContact(currentContact.id), and the
\* save effect of the render that follows
deleteContact(id) ==
  /\ contacts' = FilterOut(contacts, id)
  /\ view' = "list"
  /\ currentContact' = Null
  /\ storage' = SaveEffect(contacts', storage)

DeleteCurrent ==
  /\ Ready /\ DetailShown
  /\ deleteContact(Get(currentContact, "id"))
  /\ pristine' = FALSE
  /\ createdLog' = <<>>
  /\ UNCHANGED <<isRecording, transcript, photo, isProcessing, speechSupported,
                 formData, recognitionRef, engines, calls, reading, envVars, leftNew,
                 serverVars, download, beforeToggle>>

(* ------------------------------- vCard -------------------------------- *)
\* ${v} in a template literal, for the primitive values a contact holds
Interpolate(v) ==
  CASE v.t = "string" -> v.v
    [] v.t = "number" -> <<ToString(v.v)>>
    [] v.t = "undefined" -> <<"undefined">>
    [] v.t = "null" -> <<"null">>

\* ${contact.key ? `label${contact.key}tail` : ''}
Optional(contact, k, label, tail) ==
  IF Truthy(Get(contact, k))
    THEN <<label>> \o Interpolate(Get(contact, k)) \o tail
    ELSE <<>>

\* the template literal of generateVCard; "\n" is the line break of the source text
vcard(contact) ==
  <<"BEGIN:VCARD", "\n">>
  \o <<"VERSION:3.0", "\n">>
  \o <<"FN:">> \o Interpolate(Get(contact, "name")) \o <<"\n">>
  \o Optional(contact, "company", "ORG:", <<>>) \o <<"\n">>
  \o Optional(contact, "role", "TITLE:", <<>>) \o <<"\n">>
  \o Optional(contact, "email", "EMAIL:", <<>>) \o <<"\n">>
  \o Optional(contact, "phone", "TEL:", <<>>) \o <<"\n">>
  \o Optional(contact, "location", "ADR:;;", <<";;;">>) \o <<"\n">>
  \o <<"NOTE:">> \o Interpolate(JsOr(Get(contact, "summary"), Str(<<>>)))
  \o <<" | Met: ">>
  \o Interpolate(JsOr(Get(contact, "meetingContext"), Str(<<"Conference">>)))
  \o <<"\n">>
  \o <<"END:VCARD">>

\* a token of a name with its inner white space replaced
Word(t) ==
  CASE t = "New Contact" -> "New_Contact"
    [] t = "Unknown Contact" -> "Unknown_Contact"
    [] OTHER -> t

\* name.replace(/\s+/g, '_'): every run of white space becomes one underscore
RECURSIVE Underscored(_)
Underscored(s) ==
  IF s = <<>> THEN <<>>
  ELSE IF Head(s) = " " THEN <<"_">> \o Underscored(TrimStart(Tail(s)))
  ELSE <<Word(Head(s))>> \o Underscored(Tail(s))

\* DetailView, the Save Contact Card button: generateVCard(currentContact);
\* replace() on a name that is no string throws before the click
generateVCard ==
  /\ Ready /\ DetailShown
  /\ download' =
       IF Get(currentContact, "name").t = "string"
         THEN <<[name |-> Underscored(Get(currentContact, "name").v) \o <<".vcf">>,
                 text |-> vcard(currentContact)]>>
         ELSE download
  /\ download' # download
  /\ UNCHANGED <<uiVars, recognitionRef, engines, storage, calls, reading, envVars,
                 historyVars, serverVars, beforeToggle>>

(* ------------------------------ the draft ----------------------------- *)
\* a Quick Details input: setFormData(prev => ({ ...prev, [key]: value }))
TypeField(k, v) ==
  /\ Ready /\ view = "new"
  /\ formData[k] # v
  /\ formData' = [formData EXCEPT ![k] = v]
  /\ UNCHANGED <<contacts, currentContact, isRecording, transcript, photo,
                 isProcessing, view, speechSupported, recognitionRef, engines,
                 storage, calls, reading, envVars, historyVars, serverVars, download, beforeToggle>>

\* the notes textarea, rendered only while the transcript is not empty
EditTranscript(v) ==
  /\ Ready /\ view = "new"
  /\ transcript # <<>>
  /\ transcript # v
  /\ transcript' = v
  /\ UNCHANGED <<contacts, currentContact, isRecording, photo, formData,
                 isProcessing, view, speechSupported, recognitionRef, engines,
                 storage, calls, reading, envVars, historyVars, serverVars, download, beforeToggle>>

\* handlePhotoUpload: a FileReader starts reading the chosen file
ChoosePhoto(f) ==
  /\ Ready /\ view = "new"
  /\ f \notin reading
  /\ reading' = reading \cup {f}
  /\ UNCHANGED <<uiVars, recognitionRef, engines, storage, calls, envVars, historyVars, serverVars, download, beforeToggle>>

\* reader.onloadend: setPhoto(reader.result), null when the read failed
ReaderLoadEnd(f, ok) ==
  /\ f \in reading
  /\ reading' = reading \ {f}
  /\ photo' = IF ok THEN Str(f) ELSE Null
  /\ UNCHANGED <<contacts, currentContact, isRecording, transcript, formData,
                 isProcessing, view, speechSupported, recognitionRef, engines,
                 storage, calls, envVars, historyVars, serverVars, download, beforeToggle>>

(* --------------------------- speech capture --------------------------- *)
Active(e) == engines[e].st \in {"capturing", "stopping"}

\* start() throws on an instance already started; the host may refuse it too
StartThrows(inst) == IF inst.st # "idle" THEN {TRUE} ELSE BOOLEAN

Started(eng, ref) == [eng EXCEPT ![ref].st = "capturing"]

\* stop(): a capturing instance delivers what it has and then ends
Stopped(eng, ref) ==
  [eng EXCEPT ![ref].st = IF @ = "capturing" THEN "stopping" ELSE @]

\* an ended instance that the ref does not hold is garbage
Sweep(eng, ref) ==
  [e \in DOMAIN eng |-> IF e # ref /\ eng[e].st = "idle" THEN Free ELSE eng[e]]

\* setIsRecording(rec) with the instances left as eng, and the speech
\* recognition effect of the next render when isRecording changed
SetRecording(eng, rec) ==
  /\ isRecording' = rec
  /\ IF rec # isRecording
       THEN /\ EffectFits(eng, recognitionRef)
            /\ engines' = EffectEngines(eng, recognitionRef, rec)
            /\ recognitionRef' = EffectRef(eng, recognitionRef)
       ELSE /\ engines' = Sweep(eng, recognitionRef)
            /\ recognitionRef' = recognitionRef

\* history: beforeToggle after a step of the speech capture. A toggle that
\* starts a recording notes the transcript it found; the toggle that stops the
\* recording, no result having arrived, adds the transcript it leaves
Quiet(toggled) ==
  IF toggled
    THEN IF ~isRecording
           THEN IF isRecording' THEN <<transcript>> ELSE <<>>
           ELSE IF Len(beforeToggle) = 1
                  THEN <<beforeToggle[1], transcript'>>
                  ELSE <<>>
    ELSE IF isRecording /\ isRecording' /\ Len(beforeToggle) = 1
           THEN beforeToggle
           ELSE <<>>

\* variant: the toggle starts the recording and keeps the transcript
toggleRecordingKeepsTranscript ==
  /\ Ready /\ view = "new"
  /\ speechSupported
  /\ UNCHANGED transcript
  /\ IF isRecording
       THEN SetRecording(Stopped(engines, recognitionRef), FALSE)
       ELSE \E throws \in StartThrows(engines[recognitionRef]) :
              IF throws
                THEN UNCHANGED speechVars
                ELSE SetRecording(Started(engines, recognitionRef), TRUE)
  /\ beforeToggle' = Quiet(TRUE)
  /\ UNCHANGED <<contacts, currentContact, photo, isProcessing, view,
                 speechSupported, formData, storage, calls, reading, envVars,
                 historyVars, serverVars, download>>

\* NewContactView: the microphone button, disabled={!speechSupported}
toggleRecording ==
  /\ Ready /\ view = "new"
  /\ speechSupported
  /\ IF isRecording
       THEN /\ SetRecording(Stopped(engines, recognitionRef), FALSE)
            /\ UNCHANGED transcript
       ELSE /\ transcript' = <<>>
            /\ \E throws \in StartThrows(engines[recognitionRef]) :
                 IF throws
                   THEN UNCHANGED speechVars
                   ELSE SetRecording(Started(engines, recognitionRef), TRUE)
  /\ beforeToggle' = Quiet(TRUE)
  /\ UNCHANGED <<contacts, currentContact, photo, isProcessing, view,
                 speechSupported, formData, storage, calls, reading, envVars,
                 historyVars, serverVars, download>>

\* variant of the loop: every result from resultIndex on is appended, final or not
RECURSIVE FinalFromAnyResult(_, _)
FinalFromAnyResult(results, i) ==
  IF i > Len(results) THEN <<>>
  ELSE (results[i].transcript \o <<" ">>) \o FinalFromAnyResult(results, i + 1)

\* the loop of onresult over event.results from event.resultIndex
RECURSIVE FinalFrom(_, _)
FinalFrom(results, i) ==
  IF i > Len(results) THEN <<>>
  ELSE (IF results[i].isFinal THEN results[i].transcript \o <<" ">> ELSE <<>>)
         \o FinalFrom(results, i + 1)

finalTranscript(ev) == FinalFrom(ev.results, ev.resultIndex + 1)

\* recognition.onresult of instance e, the transcript kept within room tokens
onresult(e, ev, room) ==
  /\ Ready /\ Active(e)
  /\ Len(transcript) + Len(finalTranscript(ev)) <= room
  /\ transcript' = IF finalTranscript(ev) # <<>>
                     THEN transcript \o finalTranscript(ev)
                     ELSE transcript
  /\ beforeToggle' = <<>>
  /\ UNCHANGED <<contacts, currentContact, isRecording, photo, isProcessing, view,
                 speechSupported, formData, recognitionRef, engines, storage, calls,
                 reading, envVars, historyVars, serverVars, download>>

RecognitionResult(e, ev) == onresult(e, ev, MaxLen)

\* variant: the error handler also drops what was dictated
RecognitionErrorDropsTranscript(e) ==
  /\ Ready /\ Active(e)
  /\ SetRecording([engines EXCEPT ![e].st = "stopping"], FALSE)
  /\ transcript' = <<>>
  /\ beforeToggle' = Quiet(FALSE)
  /\ UNCHANGED <<contacts, currentContact, photo, isProcessing, view,
                 speechSupported, formData, storage, calls, reading, envVars,
                 historyVars, serverVars, download>>

\* recognition.onerror of instance e: setIsRecording(false); the instance ends later
RecognitionError(e) ==
  /\ Ready /\ Active(e)
  /\ SetRecording([engines EXCEPT ![e].st = "stopping"], FALSE)
  /\ beforeToggle' = Quiet(FALSE)
  /\ UNCHANGED <<contacts, currentContact, transcript, photo, isProcessing, view,
                 speechSupported, formData, storage, calls, reading, envVars,
                 historyVars, serverVars, download>>

\* recognition.onend of instance e, with the isRecording its handlers closed over
RecognitionEnd(e) ==
  /\ Ready /\ Active(e)
  /\ LET ended == [engines EXCEPT ![e].st = "idle"] IN
       IF engines[e].closure
         THEN \E throws \in StartThrows(ended[recognitionRef]) :
                IF throws
                  THEN SetRecording(ended, FALSE)
                  ELSE SetRecording(Started(ended, recognitionRef), isRecording)
         ELSE SetRecording(ended, isRecording)
  /\ beforeToggle' = Quiet(FALSE)
  /\ UNCHANGED <<contacts, currentContact, transcript, photo, isProcessing, view,
                 speechSupported, formData, storage, calls, reading, envVars,
                 historyVars, serverVars, download>>

(* ----------------------------- processWithAI -------------------------- *)
\* variant: the button looks at the transcript only
ProcessDisabledNoFlag == Trim(transcript) = <<>>

\* the process button: disabled={!transcript.trim() || isProcessing}
ProcessDisabled == Trim(transcript) = <<>> \/ isProcessing

\* processWithAI up to the await of fetch: the request carries the
\* transcript and formData of the render; room is the number of contacts and
\* calls the model keeps
Submit(room) ==
  /\ Ready /\ view = "new"
  /\ ~ProcessDisabled
  /\ Len(contacts) + Len(calls) < room
  /\ IF Trim(transcript) = <<>>
       THEN UNCHANGED <<isProcessing, calls>>
       ELSE /\ isProcessing' = TRUE
            /\ calls' = Append(calls, [pc |-> "fetch",
                                       snap |-> Snapshot(transcript, formData, photo),
                                       listAtSubmit |-> contacts])
  /\ UNCHANGED <<contacts, currentContact, isRecording, transcript, photo, view,
                 speechSupported, formData, recognitionRef, engines, storage,
                 reading, envVars, historyVars, serverVars, download, beforeToggle>>

RemoveAt(q, i) == SubSeq(q, 1, i - 1) \o SubSeq(q, i + 1, Len(q))

\* variant: the new contact goes to the end of the list
SuccessPathAppend(list, c) == list \o <<c>>

\* setContacts(prev => [newContact, ...prev])
SuccessPath(list, c) == <<c>> \o list

\* variant: the catch block sets the list to the fallback contact alone
FallbackPathAlone(list, c) == <<c>>

\* variant: the catch block only logs
FallbackPathDropped(list, c) == list

\* setContacts(prev => [fallbackContact, ...prev])
FallbackPath(list, c) == <<c>> \o list

\* the rest of either path: setCurrentContact, setView('detail'), resetForm(),
\* then setIsProcessing(false), and the save effect of the render that follows
Completed(i, c, list) ==
  /\ contacts' = list
  /\ currentContact' = c
  /\ view' = "detail"
  /\ resetForm
  /\ isProcessing' = FALSE
  /\ storage' = SaveEffect(list, storage)
  /\ calls' = RemoveAt(calls, i)
  /\ leftNew' = (leftNew /\ calls' # <<>>)
  /\ createdLog' = IF pristine THEN Append(createdLog, c) ELSE <<>>
  /\ UNCHANGED <<isRecording, speechSupported, recognitionRef, engines, reading,
                 envVars, pristine, serverVars, download, beforeToggle>>

\* variant: the catch block sends the request again
CatchBlockRetries(i, n) ==
  /\ calls' = [calls EXCEPT ![i].pc = "fetch"]
  /\ UNCHANGED <<uiVars, recognitionRef, engines, storage, reading, envVars,
                 historyVars, serverVars, download, beforeToggle>>

\* variant: the catch block reads the draft of the latest render
CatchBlockLatestDraft(i, n) ==
  Completed(i, FallbackContact(Snapshot(transcript, formData, photo), n),
            FallbackPath(contacts,
                         FallbackContact(Snapshot(transcript, formData, photo), n)))

\* variant: the catch block prepends to the list of the render of the submit
CatchBlockListOfSubmit(i, n) ==
  Completed(i, FallbackContact(calls[i].snap, n),
            FallbackPath(calls[i].listAtSubmit, FallbackContact(calls[i].snap, n)))

\* the catch block, Date.now() reading n
CatchBlock(i, n) ==
  Completed(i, FallbackContact(calls[i].snap, n),
            FallbackPath(contacts, FallbackContact(calls[i].snap, n)))

\* variant: only a body that is not JSON makes the try block throw
BodyThrowsNotJsonOnly(body) == ~body.json

\* the 2xx body makes the try block throw: response.json() rejects, or
\* parsed.name is read from null
BodyThrows(body) == IF body.json THEN PropThrows(body.value) ELSE TRUE

\* await fetch(...) settles: "reject" a network error, "notok" a status
\* outside 2xx, "ok" a 2xx status
FetchSettles(i, outcome, n) ==
  /\ i \in 1..Len(calls)
  /\ calls[i].pc = "fetch"
  /\ IF outcome = "ok"
       THEN /\ calls' = [calls EXCEPT ![i].pc = "json"]
            /\ UNCHANGED <<uiVars, recognitionRef, engines, storage, reading,
                           envVars, historyVars, serverVars, download, beforeToggle>>
       ELSE CatchBlock(i, n)

\* variant: no catch block, a throwing body ends the call where it threw
JsonSettlesUncaught(i, body, n) ==
  /\ i \in 1..Len(calls)
  /\ calls[i].pc = "json"
  /\ IF BodyThrows(body)
       THEN /\ calls' = RemoveAt(calls, i)
            /\ UNCHANGED <<uiVars, recognitionRef, engines, storage, reading,
                           envVars, historyVars, serverVars, download, beforeToggle>>
       ELSE Completed(i, NewContact(body.value, calls[i].snap, n),
                      SuccessPath(contacts, NewContact(body.value, calls[i].snap, n)))

\* await response.json() settles with the body
JsonSettles(i, body, n) ==
  /\ i \in 1..Len(calls)
  /\ calls[i].pc = "json"
  /\ IF BodyThrows(body)
       THEN CatchBlock(i, n)
       ELSE Completed(i, NewContact(body.value, calls[i].snap, n),
                      SuccessPath(contacts, NewContact(body.value, calls[i].snap, n)))

(* --------------------------- specification ---------------------------- *)
Next ==
  \/ MountLoadEffect
  \/ MountSaveEffect
  \/ MountSpeechEffect
  \/ MountCommit
  \/ RequestCreate
  \/ Cancel
  \/ \E i \in 1..MaxList : SelectContact(i)
  \/ Back
  \/ DeleteCurrent
  \/ \E k \in TypedKeys, v \in FieldTexts : TypeField(k, v)
  \/ \E v \in TypedTexts : EditTranscript(v)
  \/ \E f \in PhotoFiles : ChoosePhoto(f)
  \/ \E f \in PhotoFiles, ok \in BOOLEAN : ReaderLoadEnd(f, ok)
  \/ toggleRecording
  \/ \E e \in 1..MaxEngines, ev \in SpeechEvents : RecognitionResult(e, ev)
  \/ \E e \in 1..MaxEngines : RecognitionError(e)
  \/ \E e \in 1..MaxEngines : RecognitionEnd(e)
  \/ Submit(MaxContacts)
  \/ \E i \in 1..MaxList, outcome \in {"reject", "notok", "ok"}, n \in ClockReadings :
       FetchSettles(i, outcome, n)
  \/ \E i \in 1..MaxList, body \in Bodies, n \in ClockReadings :
       JsonSettles(i, body, n)

Spec == Init /\ [][Next]_vars

\* the program with a user who dictates and edits the notes, fills in no
\* Quick Details input and picks no photo, and room for MaxList contacts
NextList ==
  \/ MountLoadEffect
  \/ MountSaveEffect
  \/ MountSpeechEffect
  \/ MountCommit
  \/ RequestCreate
  \/ Cancel
  \/ \E i \in 1..MaxList : SelectContact(i)
  \/ Back
  \/ DeleteCurrent
  \/ \E v \in TypedTexts : EditTranscript(v)
  \/ toggleRecording
  \/ \E e \in 1..MaxEngines, ev \in SpeechEvents : RecognitionResult(e, ev)
  \/ \E e \in 1..MaxEngines : RecognitionError(e)
  \/ \E e \in 1..MaxEngines : RecognitionEnd(e)
  \/ Submit(MaxList)
  \/ \E i \in 1..MaxList, outcome \in {"reject", "notok", "ok"}, n \in ClockReadings :
       FetchSettles(i, outcome, n)
  \/ \E i \in 1..MaxList, body \in Bodies, n \in ClockReadings :
       JsonSettles(i, body, n)

SpecList == Init /\ [][NextList]_vars

\* a step in which an await of processWithAI settles
Settles ==
  \/ \E i \in 1..MaxList, outcome \in {"reject", "notok", "ok"}, n \in ClockReadings :
       FetchSettles(i, outcome, n)
  \/ \E i \in 1..MaxList, body \in Bodies, n \in ClockReadings :
       JsonSettles(i, body, n)

\* the user of NextList with room for MaxContacts contacts
NextLive ==
  \/ MountLoadEffect
  \/ MountSaveEffect
  \/ MountSpeechEffect
  \/ MountCommit
  \/ RequestCreate
  \/ Cancel
  \/ \E i \in 1..MaxList : SelectContact(i)
  \/ Back
  \/ DeleteCurrent
  \/ \E v \in TypedTexts : EditTranscript(v)
  \/ toggleRecording
  \/ \E e \in 1..MaxEngines, ev \in SpeechEvents : RecognitionResult(e, ev)
  \/ \E e \in 1..MaxEngines : RecognitionError(e)
  \/ \E e \in 1..MaxEngines : RecognitionEnd(e)
  \/ Submit(MaxContacts)
  \/ Settles

\* every promise of fetch and of response.json() settles in the end: an
\* await that can settle does not stay pending forever
SpecLive == Init /\ [][NextLive]_vars /\ WF_vars(Settles)

\* the program with a user who only dictates: the new view, the microphone
\* button and the engine's events, an event holding up to MaxHeard results
\* and the transcript up to MaxSpoken tokens
NextSpeech ==
  \/ MountLoadEffect
  \/ MountSaveEffect
  \/ MountSpeechEffect
  \/ MountCommit
  \/ RequestCreate
  \/ Cancel
  \/ \E v \in TypedTexts : EditTranscript(v)
  \/ toggleRecording
  \/ \E e \in 1..MaxEngines, ev \in HeardEvents : onresult(e, ev, MaxSpoken)
  \/ \E e \in 1..MaxEngines : RecognitionError(e)
  \/ \E e \in 1..MaxEngines : RecognitionEnd(e)

SpecSpeech == Init /\ [][NextSpeech]_vars

\* processWithAI alone, from the click on the process button with any draft
\* and any notes to the end of the call, with any overlapping field in the
\* body: the state is the one after dictating, stopping and filling the form
InitBuild ==
  /\ contacts = <<>>
  /\ currentContact = Null
  /\ isRecording = FALSE
  /\ transcript \in BuildTranscripts
  /\ photo = Null
  /\ isProcessing = TRUE
  /\ view = "new"
  /\ speechSupported = TRUE
  /\ formData \in BuildForms
  /\ recognitionRef = 2
  /\ engines = [e \in 1..MaxEngines |->
                  IF e = 2 THEN [st |-> "idle", closure |-> FALSE] ELSE Free]
  /\ speechAPI = TRUE
  /\ storage = NoItem
  /\ mount = "ready"
  /\ queued = <<>>
  /\ calls = <<[pc |-> "fetch", snap |-> Snapshot(transcript, formData, photo),
                listAtSubmit |-> contacts]>>
  /\ reading = {}
  /\ leftNew = FALSE
  /\ pristine = TRUE
  /\ createdLog = <<>>
  /\ post = NoRequest
  /\ download = <<>>
  /\ beforeToggle = <<>>

NextBuild ==
  \/ \E outcome \in {"reject", "notok", "ok"}, n \in ClockReadings :
       FetchSettles(1, outcome, n)
  \/ \E body \in BuildBodies, n \in ClockReadings : JsonSettles(1, body, n)

SpecBuild == InitBuild /\ [][NextBuild]_vars

\* processWithAI from a submitted call, and the contact card of its result
NextCard ==
  \/ NextBuild
  \/ generateVCard

SpecCard == InitBuild /\ [][NextCard]_vars

(* ----------------------- POST /api/process --------------------------- *)
\* formData as the request body carries it
FormObject(fd) == Obj([k \in FormKeys |-> Str(fd[k])])

\* request bodies: not JSON, the JSON null, or an object in which transcript
\* and formData are left out, null, or given
PostTranscripts == {Undefined, Str(<<>>), Str(<<" ">>), Str(<<"n">>)}
PostForms ==
  {Undefined, Null, FormObject(EmptyForm), FormObject([EmptyForm EXCEPT !.name = <<"d">>])}
RequestBodies ==
  {[json |-> FALSE], [json |-> TRUE, value |-> Null]} \cup
  {[json |-> TRUE, value |-> JsonObject([transcript |-> t, formData |-> f])] :
     t \in PostTranscripts, f \in PostForms}

\* texts of a text block, as tokens: fence-json and fence (three backquotes
\* with and without json), the line break nl, white space, a JSON document
\* ({} the object, null), other text
ReplyTexts ==
  { <<>>, <<"{}">>, <<"null">>, <<"junk">>, <<"junk", "{}">>,
    <<" ", "{}", "nl">>,
    <<"fence-json", "nl", "{}", "nl", "fence">>,
    <<"fence", "{}", "fence">>,
    <<"fence-json", "{}", "fence", "nl", "junk">> }

TextBlock(t) == [type |-> "text", text |-> t]
ToolBlock == [type |-> "tool_use", text |-> <<>>]

\* message.content of the upstream reply
ReplyContents ==
  {<<>>, <<ToolBlock>>} \cup
  {<<TextBlock(t)>> : t \in ReplyTexts} \cup
  {<<ToolBlock, TextBlock(t)>> : t \in ReplyTexts} \cup
  {<<TextBlock(t), TextBlock(<<"junk">>)>> : t \in ReplyTexts}

\* anthropic.messages.create rejects, or resolves with a message
UpstreamReplies ==
  {[ok |-> FALSE, content |-> <<>>]} \cup {[ok |-> TRUE, content |-> c] : c \in ReplyContents}

\* NextResponse.json(value, { status })
Response(status, value) == [status |-> status, body |-> value]
ErrorObject(msg) == Obj([error |-> Str(<<msg>>)])

\* the catch block of POST
Failed == Response(500, ErrorObject("Failed to process with AI"))

\* message.content.find(block => block.type === 'text'), <<>> when there is none
RECURSIVE FindText(_)
FindText(content) ==
  IF content = <<>> THEN <<>>
  ELSE IF Head(content).type = "text" THEN <<Head(content)>>
  ELSE FindText(Tail(content))

\* .replace(/<fence>\n?/g, ''): every fence goes, with the line break after it
RECURSIVE StripFence(_, _)
StripFence(s, fence) ==
  IF s = <<>> THEN <<>>
  ELSE IF Head(s) = fence
    THEN IF Len(s) >= 2 /\ s[2] = "nl"
           THEN StripFence(SubSeq(s, 3, Len(s)), fence)
           ELSE StripFence(Tail(s), fence)
    ELSE <<Head(s)>> \o StripFence(Tail(s), fence)

\* .trim() of a text with line breaks
RECURSIVE TrimWs(_)
TrimWs(s) ==
  IF s # <<>> /\ Head(s) \in {" ", "nl"} THEN TrimWs(Tail(s))
  ELSE IF s # <<>> /\ s[Len(s)] \in {" ", "nl"} THEN TrimWs(SubSeq(s, 1, Len(s) - 1))
  ELSE s

cleanedText(text) == TrimWs(StripFence(StripFence(text, "fence-json"), "fence"))

\* JSON.parse: the text has to be one document
JsonParseThrows(s) == ~(Len(s) = 1 /\ s[1] \in {"{}", "null"})
JsonParse(s) == IF s[1] = "{}" THEN ParsedObject ELSE Null

Respond(r) == post' = [post EXCEPT !.pc = "done", !.resp = <<r>>]

\* POST up to the await of anthropic.messages.create: request.json(), the
\* destructuring, the check of transcript, the prompt template
PostReceives ==
  /\ post.pc = "received"
  /\ LET b == post.body[1] IN
       IF ~b.json \/ PropThrows(b.value)
         THEN Respond(Failed)
       ELSE IF ~Truthy(Prop(b.value, "transcript"))
         THEN Respond(Response(400, ErrorObject("No transcript provided")))
       ELSE IF PropThrows(Prop(b.value, "formData"))
         THEN Respond(Failed)
       ELSE post' = [post EXCEPT !.pc = "upstream", !.upstream = @ + 1]
  /\ UNCHANGED clientVars

\* anthropic.messages.create settles, and POST runs to its return
UpstreamSettles(reply) ==
  /\ post.pc = "upstream"
  /\ post' = [post EXCEPT
       !.pc = "done",
       !.reply = <<reply>>,
       !.resp = <<IF ~reply.ok \/ FindText(reply.content) = <<>>
                    THEN Failed
                  ELSE IF JsonParseThrows(cleanedText(FindText(reply.content)[1].text))
                    THEN Failed
                  ELSE Response(200, JsonParse(cleanedText(FindText(reply.content)[1].text)))>>]
  /\ UNCHANGED clientVars

\* one request to the endpoint, the page left as it starts
InitPost ==
  /\ InitClient
  /\ speechAPI = FALSE
  /\ storage = NoItem
  /\ post \in {[NoRequest EXCEPT !.pc = "received", !.body = <<b>>] : b \in RequestBodies}

NextPost ==
  \/ PostReceives
  \/ \E reply \in UpstreamReplies : UpstreamSettles(reply)

SpecPost == InitPost /\ [][NextPost]_vars

(* ------------------------------ properties --------------------------- *)
\* a processWithAI invocation ran to its end in this step
CallEnds == Len(calls') < Len(calls)

\* C1: the view starts as list, and every change of view is list -> new on
\* the create request, new -> list on cancel, new -> detail on the end of a
\* creation, detail -> list on back or delete, or list -> detail on selecting
\* a contact.
ViewStepsOnlyListed ==
  /\ view = "list"
  /\ [][view' # view =>
          \/ (view = "list" /\ view' = "new" /\ RequestCreate)
          \/ (view = "new" /\ view' = "list" /\ Cancel)
          \/ (view = "new" /\ view' = "detail" /\ CallEnds)
          \/ (view = "detail" /\ view' = "list" /\ (Back \/ DeleteCurrent))
          \/ (view = "list" /\ view' = "detail" /\ \E i \in 1..Len(contacts) : SelectContact(i))
       ]_vars

\* C2: whenever the view changes to new, right after the change the draft
\* form has every field empty, the transcript is empty and the photo is null.
EnteringNewFindsEmptyDraft ==
  [][(view # "new" /\ view' = "new") =>
       (formData' = EmptyForm /\ transcript' = <<>> /\ photo' = Null)]_vars

\* C10: at startup with a non-empty persisted list, from the load effect
\* until the loaded list is in memory the persisted copy equals the
\* pre-existing data.
MountKeepsStoredContacts ==
  (mount \in {"save", "speech", "commit"} /\ queued # <<>>) =>
    loadFromStorage(storage) = queued

FallbackSummary == Str(<<"Notes captured - AI summary unavailable">>)

\* the contacts either path can build for a call
PathContacts(call) ==
  {FallbackContact(call.snap, n) : n \in ClockReadings} \cup
  {NewContact(b.value, call.snap, n) :
     b \in {x \in Bodies : ~BodyThrows(x)}, n \in ClockReadings}

\* C3: every extraction call ends on exactly one of the two paths: the step
\* that ends a call prepends exactly one contact, built by one of the paths
\* from that call, and no other step after the mount adds a contact.
ExactlyOnePathPerCall ==
  [][IF CallEnds
       THEN \E i \in 1..Len(calls) :
              /\ calls' = RemoveAt(calls, i)
              /\ Len(contacts') = Len(contacts) + 1
              /\ Tail(contacts') = contacts
              /\ Head(contacts') \in PathContacts(calls[i])
       ELSE Ready => Len(contacts') <= Len(contacts)]_vars

\* a contact of each path is in the list, one call each
BothPathsTaken ==
  /\ pristine /\ calls = <<>>
  /\ Len(contacts) = 2
  /\ Get(contacts[1], "summary") = FallbackSummary
  /\ Get(contacts[2], "summary") = Str(<<"s">>)

\* C4: while an extraction call is outstanding the processing flag is true,
\* and at most one call is in flight at any time.
AtMostOneCallInFlight ==
  /\ Len(calls) <= 1
  /\ calls # <<>> => isProcessing

\* a call is outstanding while the new view shows a transcript to submit
SecondSubmitTempting ==
  /\ Len(calls) = 1
  /\ view = "new"
  /\ Trim(transcript) # <<>>
  /\ Len(contacts) + Len(calls) < MaxList

\* C5: when the user left the new view while the call was outstanding, the
\* arrival of the result leaves the draft form, the transcript and the photo
\* as they are and the contact being viewed stays the current contact.
LateResultLeavesState ==
  [][(CallEnds /\ leftNew) =>
       /\ transcript' = transcript
       /\ formData' = formData
       /\ photo' = photo
       /\ (view = "detail" => currentContact' = currentContact)]_vars

\* C6: no two contacts of the in-memory list have the same id.
UniqueIds ==
  \A i, j \in 1..Len(contacts) :
    i # j => Get(contacts[i], "id") # Get(contacts[j], "id")

DeleteRemovesExactlyOne ==
  [][DeleteCurrent =>
       /\ \E i \in 1..Len(contacts) :
            /\ contacts[i] = currentContact
            /\ contacts' = RemoveAt(contacts, i)
       /\ storage' = saveToStorage(contacts')
       /\ view' = "list"]_vars

\* C9: the current contact is null or an element of the in-memory list, and
\* it is not null while the view is detail.
CurrentContactInList ==
  /\ currentContact = Null \/ \E i \in 1..Len(contacts) : contacts[i] = currentContact
  /\ view = "detail" => currentContact # Null

\* a deletion emptied the list and cleared the current contact
DeletedAndCleared ==
  /\ Ready
  /\ ~pristine
  /\ contacts = <<>>
  /\ currentContact = Null

\* two contacts with the same value under every key of Contact (a key left
\* out reads as undefined)
SameContact(a, b) == \A k \in ContactKeys \cup DOMAIN a \cup DOMAIN b : Get(a, k) = Get(b, k)

SameList(l, m) ==
  /\ Len(l) = Len(m)
  /\ \A i \in 1..Len(l) : SameContact(l[i], m[i])

\* C11: after every mutation of the in-memory list, once the save effect has
\* run, reloading the persisted list gives a list equal to the in-memory
\* list in content and order; and every write of the persisted copy is the
\* serialization of the in-memory list as it is after the step (memory is
\* mutated first, persisted after).
PersistedEqualsMemory ==
  /\ [](Ready => SameList(loadFromStorage(storage), contacts))
  /\ [][storage' # storage => storage' = saveToStorage(contacts')]_vars

\* two contacts are in memory and persisted, and the stored document is not
\* the in-memory list itself (keys with undefined values are left out)
PersistedAfterCreation ==
  /\ Ready /\ calls = <<>>
  /\ Len(contacts) = 2
  /\ storage # NoItem
  /\ loadFromStorage(storage) # contacts

\* l is m with some elements left out, the rest in their order
RECURSIVE IsSubseq(_, _)
IsSubseq(l, m) ==
  IF l = <<>> THEN TRUE
  ELSE IF m = <<>> THEN FALSE
  ELSE IF Head(l) = Head(m) THEN IsSubseq(Tail(l), Tail(m))
  ELSE IsSubseq(l, Tail(m))

\* every element of l is in m, unchanged, at the same distance from the end
KeptIn(l, m) ==
  /\ Len(l) <= Len(m)
  /\ \A i \in 1..Len(l) : m[i + Len(m) - Len(l)] = l[i]

\* C12: once the list is loaded, every step other than a deletion by the
\* user (a creation on either path, a speech error, a failed start of the
\* recording, cancel, ...) leaves every contact of the in-memory list and of
\* the persisted list present and unchanged, and a deletion changes no
\* contact that stays in the list.
ContactsKept ==
  [][Ready =>
       IF DeleteCurrent
         THEN IsSubseq(contacts', contacts)
         ELSE /\ KeptIn(contacts, contacts')
              /\ KeptIn(loadFromStorage(storage), loadFromStorage(storage'))]_vars

\* the contact of an earlier session is still there, in memory and persisted,
\* after an extraction that failed
KeptThroughFailure ==
  /\ Ready /\ calls = <<>>
  /\ Len(contacts) = 2
  /\ SameContact(contacts[2], OldContact)
  /\ Get(contacts[1], "summary") = FallbackSummary
  /\ Len(loadFromStorage(storage)) = 2
  /\ SameContact(loadFromStorage(storage)[2], OldContact)

\* 2xx bodies that take the success path: JSON that is not null
SuccessBodies == {b \in BuildBodies : b.json /\ b.value.t # "null"}

\* the step is the end of call 1 on the success path with this body, at the
\* clock reading that the id of the new contact shows
SuccessEnds(body) ==
  /\ Len(calls) = 1 /\ calls[1].pc = "json" /\ CallEnds
  /\ body \in SuccessBodies
  /\ JsonSettles(1, body, Get(Head(contacts'), "id").v)

\* an extracted value that is present and non-empty
Present(x) == x.t = "string" /\ x.v # <<>>

\* the precedence rule: the extraction, else the draft, else last
Precedence(x, d, last) ==
  IF Present(x) THEN x ELSE IF d # <<>> THEN Str(d) ELSE last

\* C13 as stated: on a successful extraction every overlapping field,
\* name included, is the extracted value if present and non-empty, else the
\* draft value if non-empty, else absent.
PrecedenceElseAbsent ==
  [][\A body \in SuccessBodies :
       SuccessEnds(body) =>
         \A k \in OverlapKeys :
           Get(Head(contacts'), k) =
             Precedence(Prop(body.value, k), calls[1].snap.formData[k], Undefined)]_vars

\* C13: on a successful extraction each of company, role, email, phone and
\* location is the extracted value if present and non-empty, else the draft
\* value if non-empty, else absent; the name follows the same rule except
\* that it is 'Unknown Contact' instead of absent.
PrecedenceWithNamePlaceholder ==
  [][\A body \in SuccessBodies :
       SuccessEnds(body) =>
         \A k \in OverlapKeys :
           Get(Head(contacts'), k) =
             Precedence(Prop(body.value, k), calls[1].snap.formData[k],
                        IF k = "name" THEN Str(<<"Unknown Contact">>) ELSE Undefined)]_vars

\* a contact of the success path with one field from the extraction, one
\* from the draft, one absent, and the placeholder as its name
AllThreeSources ==
  /\ calls = <<>> /\ Len(contacts) = 1
  /\ Get(contacts[1], "summary") = Str(<<"s">>)
  /\ Get(contacts[1], "company") = Str(<<"x">>)
  /\ Get(contacts[1], "role") = Str(<<"d">>)
  /\ Get(contacts[1], "email") = Undefined
  /\ Get(contacts[1], "name") = Str(<<"Unknown Contact">>)

\* the step is the end of call 1 after a failure: a network error, a status
\* outside 2xx, or a 2xx body that is not JSON or is null
FailureEnds ==
  /\ Len(calls) = 1 /\ CallEnds
  /\ LET n == Get(Head(contacts'), "id").v IN
       \/ /\ calls[1].pc = "fetch"
          /\ \E outcome \in {"reject", "notok"} : FetchSettles(1, outcome, n)
       \/ /\ calls[1].pc = "json"
          /\ \E body \in BuildBodies \ SuccessBodies : JsonSettles(1, body, n)

\* C14: for every transcript, when the extraction call fails (network error,
\* status outside 2xx, body that is not JSON) the new contact has the fixed
\* placeholder as summary, empty keyTopics and actionItems, the draft name or
\* 'New Contact' as name, and company, role, email, phone, location and
\* meetingContext from the draft alone (absent when the draft has none).
FailureGivesFallback ==
  [][FailureEnds =>
       LET c == Head(contacts')
           d == calls[1].snap.formData
       IN /\ Get(c, "summary") = FallbackSummary
          /\ Get(c, "keyTopics") = Arr(<<>>)
          /\ Get(c, "actionItems") = Arr(<<>>)
          /\ Get(c, "name") = IF d.name # <<>> THEN Str(d.name) ELSE Str(<<"New Contact">>)
          /\ \A k \in FormKeys \ {"name"} :
               Get(c, k) = IF d[k] # <<>> THEN Str(d[k]) ELSE Undefined]_vars

\* a fallback contact named by the placeholder, with a field of the draft and
\* the notes that were submitted
FallbackFromDraft ==
  /\ calls = <<>> /\ Len(contacts) = 1
  /\ Get(contacts[1], "summary") = FallbackSummary
  /\ Get(contacts[1], "name") = Str(<<"New Contact">>)
  /\ Get(contacts[1], "meetingContext") = Str(<<"d">>)
  /\ Get(contacts[1], "email") = Undefined
  /\ Get(contacts[1], "rawNotes") = Str(<<"a", " ">>)

\* C15: every contact of the list has a name that is a non-empty string, in
\* every reachable state, whichever path built it and whatever the draft
\* name and the extracted name were.
EveryNameNonEmpty ==
  \A i \in 1..Len(contacts) :
    /\ Get(contacts[i], "name").t = "string"
    /\ Get(contacts[i], "name").v # <<>>

\* a contact of the success path whose name is the placeholder, the body
\* and the draft giving none
NamedByPlaceholder ==
  /\ Len(contacts) = 1
  /\ Get(contacts[1], "summary") = Str(<<"s">>)
  /\ Get(contacts[1], "name") = Str(<<"Unknown Contact">>)
  /\ Get(contacts[1], "phone") = Str(<<"x">>)

\* the calls whose request is out and not yet answered
Fetching(q) == {i \in 1..Len(q) : q[i].pc = "fetch"}

\* C16: a submit makes no request when the transcript is empty or white
\* space only (no step from such a state sends one, and none creates a
\* contact from those notes) and exactly one otherwise; no other step sends
\* a request, so a call that failed is not tried again.
OneRequestPerSubmit ==
  [][/\ Submit(MaxList) =>
          /\ Trim(transcript) # <<>>
          /\ calls' = Append(calls, calls'[Len(calls')])
          /\ calls'[Len(calls')].pc = "fetch"
     /\ ~Submit(MaxList) =>
          /\ Len(calls') <= Len(calls)
          /\ Cardinality(Fetching(calls')) <= Cardinality(Fetching(calls))
     /\ Trim(transcript) = <<>> =>
          /\ Len(calls') <= Len(calls)
          /\ Cardinality(Fetching(calls')) <= Cardinality(Fetching(calls))]_vars

\* after a call that failed and was answered by the fallback contact, the
\* new view shows notes of white space only and the button is not busy
BlankNotesAfterFailure ==
  /\ Ready /\ view = "new"
  /\ transcript = <<" ">>
  /\ ~isProcessing /\ calls = <<>>
  /\ Len(contacts) = 1
  /\ Get(contacts[1], "summary") = FallbackSummary
  /\ Get(contacts[1], "id") # Num(-1)

\* the request carries a transcript that is not empty
TranscriptGiven(b) == b.json /\ Present(Prop(b.value, "transcript"))

IsErrorObject(x) == x.t = "object" /\ DOMAIN x.v = {"error"}

\* C17: the endpoint answers every request with exactly one of: 400 and an
\* error object, without a call of the upstream model, when the transcript
\* is missing or empty; 500 and an error object when something fails after
\* that (the upstream call rejects, the reply has no text block, its text is
\* not JSON once the fences are stripped); 200 and the parsed object
\* otherwise.
PostAnswersAsStated ==
  post.pc = "done" =>
    LET b == post.body[1]
        r == post.resp[1]
    IN IF ~TranscriptGiven(b)
         THEN r.status = 400 /\ IsErrorObject(r.body) /\ post.upstream = 0
       ELSE IF \/ post.upstream = 0
               \/ ~post.reply[1].ok
               \/ FindText(post.reply[1].content) = <<>>
               \/ JsonParseThrows(cleanedText(FindText(post.reply[1].content)[1].text))
         THEN r.status = 500 /\ IsErrorObject(r.body)
       ELSE /\ r.status = 200
            /\ post.upstream = 1
            /\ r.body = JsonParse(cleanedText(FindText(post.reply[1].content)[1].text))

\* the instances that are capturing
Capturing(eng) == {e \in DOMAIN eng : eng[e].st = "capturing"}

\* C18: the toggle while recording is active stops the capturing engine and
\* leaves the transcript as it is; and while the recording flag is off, no
\* callback (result, error, end) of an engine changes the transcript.
ToggleOffStopsCapture ==
  [][/\ (isRecording /\ toggleRecording) =>
          /\ Capturing(engines') = {}
          /\ transcript' = transcript
     /\ (~isRecording /\ \E e \in DOMAIN engines :
                            \/ \E ev \in SpeechEvents : RecognitionResult(e, ev)
                            \/ RecognitionError(e)
                            \/ RecognitionEnd(e)) =>
          transcript' = transcript]_vars

\* C19: when the capturing engine ends while the recording flag is true,
\* start() is issued again on that engine and it goes on capturing, or the
\* start throws and the flag becomes false; when the flag is false at the
\* end, no engine is started.
EndRestartsWhileRecording ==
  [][\A e \in DOMAIN engines :
       (engines[e].st = "capturing" /\ RecognitionEnd(e)) =>
         IF isRecording
           THEN engines'[e].st = "capturing" \/ ~isRecording'
           ELSE Capturing(engines') \subseteq Capturing(engines) \ {e}]_vars

\* C20: the toggle while recording is inactive sets the transcript to the
\* empty string and either starts the engine of recognitionRef and sets the
\* recording flag, or, when start() throws, leaves the flag false and every
\* engine as it was.
ToggleOnClearsAndStarts ==
  [][(~isRecording /\ toggleRecording) =>
       /\ transcript' = <<>>
       /\ \/ /\ isRecording'
             /\ engines[recognitionRef].st = "idle"
             /\ engines'[recognitionRef].st = "capturing"
          \/ /\ ~isRecording'
             /\ engines' = engines /\ recognitionRef' = recognitionRef]_vars

\* a recording was started over an earlier contact's session: the flag is
\* on, an engine captures, the transcript is empty
RecordingStartedAgain ==
  /\ Ready /\ view = "new"
  /\ isRecording
  /\ transcript = <<>>
  /\ Capturing(engines) # {}
  /\ createdLog # <<>>

\* C21 as stated: toggling the recording on and then off with no recognition
\* result in between leaves the transcript equal to its value before the
\* first toggle.
ToggleRoundTripKeeps ==
  Len(beforeToggle) = 2 => beforeToggle[2] = beforeToggle[1]

\* C21: toggling the recording on and then off with no recognition result in
\* between leaves the transcript empty, the toggle-on having cleared it: the
\* transcript equals its value before the first toggle exactly when that value
\* was empty.
ToggleRoundTripEmpties ==
  Len(beforeToggle) = 2 =>
    /\ beforeToggle[2] = <<>>
    /\ (beforeToggle[2] = beforeToggle[1]) <=> (beforeToggle[1] = <<>>)

\* a recording was toggled on over a transcript with text and toggled off
\* again before any result
ToggledOnAndOffOverText ==
  /\ Len(beforeToggle) = 2
  /\ beforeToggle[1] # <<>>
  /\ ~isRecording
  /\ transcript = beforeToggle[2]

\* text.split('\n')
RECURSIVE Lines(_)
Lines(text) ==
  IF \E i \in 1..Len(text) : text[i] = "\n"
    THEN LET i == CHOOSE j \in 1..Len(text) :
                    text[j] = "\n" /\ \A h \in 1..(j - 1) : text[h] # "\n"
         IN <<SubSeq(text, 1, i - 1)>> \o Lines(SubSeq(text, i + 1, Len(text)))
    ELSE <<text>>

\* the label of the card line of each optional attribute
CardLabel ==
  [company |-> "ORG:", role |-> "TITLE:", email |-> "EMAIL:", phone |-> "TEL:",
   location |-> "ADR:;;"]

\* the contact has a name and none of the optional attributes
NameOnly(c) == \A k \in DOMAIN CardLabel : ~Truthy(Get(c, k))

\* C22: the card generated for a contact has an ORG, TITLE, EMAIL, TEL or ADR
\* line exactly for the attributes that are present, an absent attribute
\* gives no line at all, not an empty one, and the card of a contact with
\* only a name is the five lines BEGIN:VCARD, VERSION:3.0, FN:<name>, one
\* NOTE: line, END:VCARD.
CardOmitsAbsent ==
  [][generateVCard =>
       LET c == currentContact
           lines == Lines(download'[1].text)
       IN /\ \A k \in DOMAIN CardLabel :
               Truthy(Get(c, k)) <=>
                 \E i \in 1..Len(lines) : lines[i] # <<>> /\ lines[i][1] = CardLabel[k]
          /\ \A i \in 1..Len(lines) : lines[i] # <<>>
          /\ NameOnly(c) =>
               /\ Len(lines) = 5
               /\ lines[1] = <<"BEGIN:VCARD">>
               /\ lines[2] = <<"VERSION:3.0">>
               /\ lines[3] = <<"FN:">> \o Get(c, "name").v
               /\ lines[4][1] = "NOTE:"
               /\ lines[5] = <<"END:VCARD">>]_vars

\* the results of an event from its resultIndex on
NewResults(ev) == SubSeq(ev.results, ev.resultIndex + 1, Len(ev.results))

\* the words of a list of results, each followed by one space
RECURSIVE Spaced(_)
Spaced(rs) ==
  IF rs = <<>> THEN <<>> ELSE Head(rs).transcript \o <<" ">> \o Spaced(Tail(rs))

\* C23: a result event appends to the transcript exactly the final results
\* from its resultIndex on, in order, each followed by one space; interim
\* results add nothing, and an event without a final result leaves the
\* transcript as it was.
ResultAppendsFinals ==
  [][\A e \in 1..MaxEngines, ev \in HeardEvents :
       onresult(e, ev, MaxSpoken) =>
         LET finals == SelectSeq(NewResults(ev), LAMBDA r : r.isFinal)
         IN /\ transcript' = transcript \o Spaced(finals)
            /\ finals = <<>> => transcript' = transcript]_vars

\* two final results were appended in the order of the event
TwoFinalsInOrder ==
  /\ isRecording
  /\ transcript = <<"b", " ", "a", " ">>

\* C24: an error event of any engine instance sets the recording flag to
\* false and changes nothing else: the transcript, the draft form, the photo,
\* the view, the current contact, the contact list, the processing flag and
\* the stored list are as before.
ErrorOnlyStopsRecording ==
  [][(\E e \in 1..MaxEngines : RecognitionError(e)) =>
       /\ ~isRecording'
       /\ UNCHANGED <<transcript, formData, photo, view, currentContact, contacts,
                      isProcessing, storage, calls>>]_vars

\* an engine failed while a draft with dictated notes and a typed name was
\* open: the recording is off, the draft is still there
ErrorLeftDraft ==
  /\ Ready /\ view = "new"
  /\ ~isRecording
  /\ \E e \in 1..MaxEngines : engines[e].st = "stopping"
  /\ transcript # <<>>
  /\ formData.name # <<>>

\* C25: the contact a submission produces is built from the transcript, the
\* draft form and the photo of the moment of the submit, the values of the
\* request: its rawNotes is the submitted transcript verbatim and its photo
\* the submitted photo, whatever results, typing, cancel or photo loads did
\* to the draft while the call was outstanding.
BuiltFromSubmitted ==
  [][CallEnds =>
       \E i \in 1..Len(calls) :
         /\ calls' = RemoveAt(calls, i)
         /\ Get(Head(contacts'), "rawNotes") = Str(calls[i].snap.transcript)
         /\ Get(Head(contacts'), "photo") = JsOr(calls[i].snap.photo, Undefined)
         /\ Head(contacts') \in PathContacts(calls[i])]_vars

\* a call is outstanding and the transcript, the form and the photo of the
\* draft are no longer what was submitted
DraftChangedDuringCall ==
  /\ calls # <<>>
  /\ transcript # calls[1].snap.transcript
  /\ formData # calls[1].snap.formData
  /\ photo # calls[1].snap.photo

\* C26: a deletion made while an extraction call is outstanding is not undone
\* when the result arrives: the list after the arrival is the new contact
\* prepended to the list as it is at the arrival, in memory and persisted, so
\* a contact deleted meanwhile is not brought back.
DeletionNotUndone ==
  [][CallEnds =>
       /\ contacts' # <<>>
       /\ Tail(contacts') = contacts
       /\ SameList(loadFromStorage(storage'), contacts')
       /\ \A i \in 1..Len(calls) :
            \A j \in 1..Len(calls[i].listAtSubmit) :
              (\A h \in 1..Len(contacts) : contacts[h] # calls[i].listAtSubmit[j]) =>
                \A h \in 2..Len(contacts') : contacts'[h] # calls[i].listAtSubmit[j]]_vars

\* a call is outstanding and a contact that was in the list at the submit
\* has been deleted since
DeletedDuringCall ==
  /\ calls # <<>>
  /\ contacts = <<>>
  /\ calls[1].listAtSubmit # <<>>

\* C27: at most one engine instance is capturing at any time, and it is the
\* instance recognitionRef holds, so the stop() of a toggle-off reaches the
\* instance the toggle-on before it started.
OneCaptureInRef ==
  /\ Cardinality(Capturing(engines)) <= 1
  /\ Capturing(engines) \subseteq {recognitionRef}

\* C28: every extraction call settling in the end, every submission leaves
\* the processing state: the processing flag is true exactly from the submit
\* until the call has settled, and false after it on the success path and on
\* the fallback path, so the process button is never disabled forever.
ProcessingEnds ==
  /\ [](isProcessing <=> calls # <<>>)
  /\ [][(CallEnds /\ calls' = <<>>) => ~isProcessing']_vars
  /\ (isProcessing ~> ~isProcessing)

\* a submission has left the processing state: its contact is shown, no
\* call is outstanding and the flag is off
ProcessingLeft ==
  /\ Ready /\ view = "detail"
  /\ ~isProcessing /\ calls = <<>>
  /\ contacts # <<>> /\ currentContact = Head(contacts)
  /\ Get(Head(contacts), "id").v \in ClockReadings

====
